---------------------------- MODULE Spec2Model ----------------------------
(***************************************************************************)
(* Model of the windowed dispatch engine of queryperf++                    *)
(* (src/src/lib/dispatcher.cc): Dispatcher::DispatcherImpl, the exchange   *)
(* slots (QueryEvent) it owns, and the configuration surface of            *)
(* Dispatcher.                                                             *)
(*                                                                         *)
(* The engine is single threaded: run() performs the initial dispatch and  *)
(* then blocks in the event loop, which delivers one event at a time to    *)
(* one of three callbacks (responseCallback, QueryEvent::                  *)
(* queryTimerCallback, sessionTimerCallback).  Each callback runs to       *)
(* completion, so each is one action here.                                 *)
(***************************************************************************)
EXTENDS Integers, Sequences, FiniteSets, TLC

(***************************************************************************)
(* Bounds of the model.                                                    *)
(***************************************************************************)
\* Largest configured window size (window_) that is explored.
MaxWindow == 2
\* queries_sent_ is a size_t; sends are explored up to this many.
MaxSent == 6
\* qid_t is a 16 bit unsigned integer (the DNS message id); the identifier
\* space is scaled down so that the wrap-around of qid_ is reached within
\* MaxSent sends.  The arithmetic is the same: ++qid_ modulo the size.
QidSpace == 4

Qids == 0 .. (QidSpace - 1)
SlotIds == 1 .. MaxWindow
WindowSizes == 1 .. MaxWindow

\* Values of the configurable parameters that the setters are called with.
Addresses == <<"::1", "192.0.2.53">>
Ports == {53, 5300}
Durations == {1, 30}

VARIABLES
    keep_sending_,      \* whether to send next query on getting a response
    window_,            \* configured window size
    qid_,               \* next identifier to assign
    queries_sent_,
    queries_completed_,
    server_address_,
    server_port_,
    test_duration_,
    start_time_,        \* "not_a_date_time" (is_special) or "set"
    end_time_,          \* "not_a_date_time" or "set"
    udp_socket_,        \* "NULL" or "open"
    session_timer_,     \* "NULL", "armed" or "expired"
    outstanding_,       \* list of QueryEvent: [slot, qid, armed, seq]
    loop,               \* the event loop of the message manager
    stops,              \* number of msg_mgr_->stop() calls
    sent_log,           \* identifiers of the requests written to udp_socket_
    timeouts,           \* number of queryTimerCallback calls
    last                \* the operation performed by the last step

vars == <<keep_sending_, window_, qid_, queries_sent_, queries_completed_,
          server_address_, server_port_, test_duration_, start_time_,
          end_time_, udp_socket_, session_timer_, outstanding_, loop, stops,
          sent_log, timeouts, last>>

config == <<server_address_, server_port_, test_duration_>>
counters == <<qid_, queries_sent_, queries_completed_>>

(***************************************************************************)
(* The record of the last operation: its name, its argument (an            *)
(* identifier, or the value handed to a setter; -1 when there is none),    *)
(* the position of the slot that restartQuery matched (0: none), and       *)
(* whether the operation threw.                                            *)
(***************************************************************************)
Op(name, arg, hit, err) == [op |-> name, arg |-> arg, hit |-> hit, err |-> err]

(***************************************************************************)
(* QueryEvent                                                              *)
(***************************************************************************)
\* QueryEvent::QueryEvent: created with QID 0, its timer not started.
\* seq is the history of the event: the position in sent_log (from 0) of
\* the request it has in flight, -1 before its first start.
NewQueryEvent(s) == [slot |-> s, qid |-> 0, armed |-> FALSE, seq |-> -1]

\* The request that the event has in flight is the n-th written.
Stamp(qev, n) == [qev EXCEPT !.seq = n]

\* The assignment of the identifier left out.
startKeepsQid(qev, qid) == [qev EXCEPT !.armed = TRUE]

\* QueryEvent::start: qid_ = qid; timer_->start(timeout).
start(qev, qid) == [qev EXCEPT !.qid = qid, !.armed = TRUE]

\* QueryEvent::matchResponse
matchResponse(qev, qid) == qev.qid = qid

\* A timer of the message manager fires once per start().
TimerExpire(qev) == [qev EXCEPT !.armed = FALSE]

(***************************************************************************)
(* Helpers of restartQuery                                                 *)
(***************************************************************************)
\* A search that takes end() for the last element.
FindFirstOrBack(w, qid) ==
    IF \E i \in 1 .. Len(w) : matchResponse(w[i], qid)
    THEN CHOOSE i \in 1 .. Len(w) :
            /\ matchResponse(w[i], qid)
            /\ \A j \in 1 .. (i - 1) : ~matchResponse(w[j], qid)
    ELSE Len(w)

\* A search from the back of the list.
FindLast(w, qid) ==
    IF \E i \in 1 .. Len(w) : matchResponse(w[i], qid)
    THEN CHOOSE i \in 1 .. Len(w) :
            /\ matchResponse(w[i], qid)
            /\ \A j \in (i + 1) .. Len(w) : ~matchResponse(w[j], qid)
    ELSE 0

\* find_if(outstanding_.begin(), outstanding_.end(), matchResponse(_1, qid)):
\* the position of the first matching element, 0 for outstanding_.end().
FindFirst(w, qid) ==
    IF \E i \in 1 .. Len(w) : matchResponse(w[i], qid)
    THEN CHOOSE i \in 1 .. Len(w) :
            /\ matchResponse(w[i], qid)
            /\ \A j \in 1 .. (i - 1) : ~matchResponse(w[j], qid)
    ELSE 0

\* The increment of qid_ left out.
NextQidSame(q) == q

\* ++qid_ on a qid_t: wraps silently.
NextQid(q) == (q + 1) % QidSpace

\* The increment of queries_sent_ left out.
SentNotCounted(n) == n

\* ++queries_sent_, after udp_socket_->send
Sent(n) == n + 1

\* outstanding_.erase(qev_it, outstanding_.end())
EraseToEnd(w, k) == SubSeq(w, 1, k - 1)

\* outstanding_.erase(qev_it)
Erase(w, k) == SubSeq(w, 1, k - 1) \o SubSeq(w, k + 1, Len(w))

\* A relinking that loses the elements before the k-th.
RotateLosesHead(w, k) == SubSeq(w, k, Len(w))

\* The list rotated so that its k-th element comes first.
Rotate(w, k) == SubSeq(w, k, Len(w)) \o SubSeq(w, 1, k - 1)

(***************************************************************************)
(* outstanding_.splice(qev_it, outstanding_, outstanding_.end()) asks the  *)
(* list to move the element at end() before qev_it.  end() refers to no    *)
(* element, which the language leaves undefined.  The builds of the        *)
(* standard library do one of two things with it: the unchecked list       *)
(* relinks its sentinel node before qev_it, which leaves the list rotated  *)
(* so that the matched element is first (and unchanged when it already     *)
(* is); a list with checked iterators aborts the process.  The size of     *)
(* the list is the same in both.                                           *)
(***************************************************************************)
SpliceOutcomes(w, k) ==
    { [crash |-> FALSE, list |-> Rotate(w, k)],
      [crash |-> TRUE,  list |-> w] }

(***************************************************************************)
(* Construction: DispatcherImpl::initParams.  The defaults of the window,  *)
(* the port and the duration are set in dispatcher.h; the window sizes,    *)
(* ports and durations of the model stand for them.                        *)
(***************************************************************************)
Init ==
    /\ keep_sending_ = TRUE
    /\ window_ \in WindowSizes
    /\ qid_ = 0
    /\ queries_sent_ = 0
    /\ queries_completed_ = 0
    /\ server_address_ = Addresses[1]
    /\ server_port_ \in Ports
    /\ test_duration_ \in Durations
    /\ start_time_ = "not_a_date_time"
    /\ end_time_ = "not_a_date_time"
    /\ udp_socket_ = "NULL"
    /\ session_timer_ = "NULL"
    /\ outstanding_ = << >>
    /\ loop = "idle"
    /\ stops = 0
    /\ sent_log = << >>
    /\ timeouts = 0
    /\ last = Op("construct", -1, 0, FALSE)

(***************************************************************************)
(* DispatcherImpl::run up to the entry of the event loop.                  *)
(***************************************************************************)
\* The pool of query contexts: window_ events pushed to the back.
CreatePool(n) == [i \in 1 .. n |-> NewQueryEvent(i)]

\* BOOST_FOREACH over outstanding_: start the event with qid_, send it,
\* ++queries_sent_, ++qid_.  d is the state carried through the loop.
RECURSIVE DispatchFrom(_, _)
DispatchFrom(d, i) ==
    IF i > Len(d.w) THEN d
    ELSE DispatchFrom([w    |-> [d.w EXCEPT ![i] =
                                    Stamp(start(d.w[i], d.qid), Len(d.log))],
                       qid  |-> NextQid(d.qid),
                       sent |-> Sent(d.sent),
                       log  |-> Append(d.log, d.qid)], i + 1)

\* Dispatcher::run asserts that the socket is not allocated yet.
Run ==
    /\ udp_socket_ = "NULL"
    /\ loop = "idle"
    /\ LET d == DispatchFrom([w |-> CreatePool(window_), qid |-> qid_,
                              sent |-> queries_sent_, log |-> sent_log], 1)
       IN /\ outstanding_' = d.w
          /\ qid_' = d.qid
          /\ queries_sent_' = d.sent
          /\ sent_log' = d.log
    /\ udp_socket_' = "open"
    /\ session_timer_' = "armed"
    /\ start_time_' = "set"
    /\ loop' = "running"
    /\ last' = Op("run", -1, 0, FALSE)
    /\ UNCHANGED <<keep_sending_, window_, queries_completed_, config,
                   end_time_, stops, timeouts>>

\* Dispatcher::run after msg_mgr_->run() has returned: the end time.
RunReturn ==
    /\ loop = "stopped"
    /\ end_time_ = "not_a_date_time"
    /\ end_time_' = "set"
    /\ last' = Op("return", -1, 0, FALSE)
    /\ UNCHANGED <<keep_sending_, window_, counters, config, start_time_,
                   udp_socket_, session_timer_, outstanding_, loop, stops,
                   sent_log, timeouts>>

(***************************************************************************)
(* DispatcherImpl::restartQuery(qid, response), applied to the window w    *)
(* (outstanding_ as the caller left it).  present is response != NULL.     *)
(***************************************************************************)
\* Counts every response, matched or not.
CompletedAnyResponse(n, k, present) == IF present THEN n + 1 ELSE n

\* Counts a timeout as a completion.
CompletedOrTimedOut(n, k, present) == IF k # 0 THEN n + 1 ELSE n

\* Counts a response only while sending is enabled.
CompletedWhileSending(n, k, present) ==
    IF k # 0 /\ present /\ keep_sending_ THEN n + 1 ELSE n

\* if (qev_it != outstanding_.end()) { if (response != NULL)
\*     ++queries_completed_; ... }: k is the position found, 0 for end().
Completed(n, k, present) == IF k # 0 /\ present THEN n + 1 ELSE n

\* if (keep_sending_)
KeepSending == keep_sending_

\* The matched event is started with qid_ and sent, the counters advance,
\* and the list is spliced.
Restart(w, k, qid, present, name) ==
    /\ KeepSending
    /\ queries_sent_ < MaxSent
    /\ queries_completed_' = Completed(queries_completed_, k, present)
    /\ sent_log' = Append(sent_log, qid_)
    /\ queries_sent_' = Sent(queries_sent_)
    /\ qid_' = NextQid(qid_)
    /\ \E o \in SpliceOutcomes(
                 [w EXCEPT ![k] = Stamp(start(w[k], qid_), Len(sent_log))],
                 k) :
          /\ outstanding_' = o.list
          /\ loop' = IF o.crash THEN "crashed" ELSE loop
    /\ last' = Op(name, qid, k, FALSE)
    /\ UNCHANGED stops

\* A removal that counts no completion.
RemoveUncounted(w, k, qid, present, name) ==
    /\ ~KeepSending
    /\ UNCHANGED queries_completed_
    /\ outstanding_' = Erase(w, k)
    /\ IF outstanding_' = << >>
       THEN loop' = "stopped" /\ stops' = stops + 1
       ELSE UNCHANGED <<loop, stops>>
    /\ last' = Op(name, qid, k, FALSE)
    /\ UNCHANGED <<qid_, queries_sent_, sent_log>>

\* The matched event is erased; the loop is stopped when it was the last.
Remove(w, k, qid, present, name) ==
    /\ ~KeepSending
    /\ queries_completed_' = Completed(queries_completed_, k, present)
    /\ outstanding_' = Erase(w, k)
    /\ IF outstanding_' = << >>
       THEN loop' = "stopped" /\ stops' = stops + 1
       ELSE UNCHANGED <<loop, stops>>
    /\ last' = Op(name, qid, k, FALSE)
    /\ UNCHANGED <<qid_, queries_sent_, sent_log>>

\* A discarded response counted as a completion.
MismatchCounted(w, qid, present, name) ==
    /\ queries_completed_' = Completed(queries_completed_, 1, present)
    /\ outstanding_' = w
    /\ last' = Op(name, qid, 0, FALSE)
    /\ UNCHANGED <<qid_, queries_sent_, loop, stops, sent_log>>

\* No event matches: nothing is done.
Mismatch(w, qid, present, name) ==
    /\ queries_completed_' = Completed(queries_completed_, 0, present)
    /\ outstanding_' = w
    /\ last' = Op(name, qid, 0, FALSE)
    /\ UNCHANGED <<qid_, queries_sent_, loop, stops, sent_log>>

restartQuery(w, qid, present, name) ==
    LET k == FindFirst(w, qid)
    IN  \/ k # 0 /\ Restart(w, k, qid, present, name)
        \/ k # 0 /\ Remove(w, k, qid, present, name)
        \/ k = 0 /\ Mismatch(w, qid, present, name)

\* What restartQuery and its callers leave alone.
Untouched ==
    UNCHANGED <<keep_sending_, window_, config, start_time_, end_time_,
                udp_socket_, session_timer_>>

(***************************************************************************)
(* The callbacks that the event loop delivers.                             *)
(***************************************************************************)
\* The socket hands a datagram to responseCallback while the loop runs,
\* and one that was already received when the loop was asked to stop,
\* until run() has returned.
Receiving ==
    \/ loop = "running"
    \/ loop = "stopped" /\ end_time_ = "not_a_date_time"

\* responseCallback on a datagram whose header parses: its identifier is
\* any 16 bit value (the reply may be late, duplicated or unsolicited).
Response(q) ==
    /\ Receiving
    /\ restartQuery(outstanding_, q, TRUE, "response")
    /\ UNCHANGED timeouts
    /\ Untouched

\* responseCallback on a datagram too short for a header: parseHeader
\* throws, nothing catches it ("TODO: catch exception due to bogus
\* response"), and the exception leaves the callback and the event loop.
MalformedResponse ==
    /\ loop = "running"
    /\ loop' = "threw"
    /\ last' = Op("malformed", -1, 0, TRUE)
    /\ UNCHANGED <<counters, outstanding_, stops, sent_log, timeouts>>
    /\ Untouched

\* QueryEvent::queryTimerCallback of the event of slot s, whose timer has
\* expired: restart_callback_(qid_, NULL).
Timeout(s) ==
    /\ loop = "running"
    /\ \E i \in 1 .. Len(outstanding_) :
          /\ outstanding_[i].slot = s
          /\ outstanding_[i].armed
          /\ restartQuery([outstanding_ EXCEPT ![i] = TimerExpire(@)],
                          outstanding_[i].qid, FALSE, "timeout")
    /\ timeouts' = timeouts + 1
    /\ Untouched

\* The flag left as it is.
SessionFlagKept == keep_sending_

\* The flag toggled.
SessionFlagToggled == ~keep_sending_

\* The value sessionTimerCallback assigns to keep_sending_.
SessionFlag == FALSE

\* sessionTimerCallback, on the expiry of the session timer.
sessionTimerCallback ==
    /\ loop = "running"
    /\ session_timer_ = "armed"
    /\ session_timer_' = "expired"
    /\ keep_sending_' = SessionFlag
    /\ last' = Op("session", -1, 0, FALSE)
    /\ UNCHANGED <<window_, counters, config, start_time_, end_time_,
                   udp_socket_, outstanding_, loop, stops, sent_log,
                   timeouts>>

\* sessionTimerCallback called once more, after the expiry.
sessionTimerCallbackAgain ==
    /\ loop = "running"
    /\ session_timer_ = "expired"
    /\ keep_sending_' = SessionFlag
    /\ last' = Op("session again", -1, 0, FALSE)
    /\ UNCHANGED <<window_, counters, config, start_time_, end_time_,
                   udp_socket_, session_timer_, outstanding_, loop, stops,
                   sent_log, timeouts>>

(***************************************************************************)
(* The configuration surface of Dispatcher.                                *)
(***************************************************************************)
\* The end time tested in place of the start time.
StartedByEndTime == end_time_ # "not_a_date_time"

\* !impl_->start_time_.is_special()
Started == start_time_ # "not_a_date_time"

\* What a setter leaves alone besides the parameter it sets.
SetterFrame ==
    UNCHANGED <<keep_sending_, window_, counters, start_time_, end_time_,
                udp_socket_, session_timer_, outstanding_, loop, stops,
                sent_log, timeouts>>

setServerAddress(a) ==
    /\ IF Started
       THEN /\ last' = Op("setServerAddress", a, 0, TRUE)
            /\ UNCHANGED server_address_
       ELSE /\ last' = Op("setServerAddress", a, 0, FALSE)
            /\ server_address_' = Addresses[a]
    /\ UNCHANGED <<server_port_, test_duration_>>
    /\ SetterFrame

setServerPort(p) ==
    /\ IF Started
       THEN /\ last' = Op("setServerPort", p, 0, TRUE)
            /\ UNCHANGED server_port_
       ELSE /\ last' = Op("setServerPort", p, 0, FALSE)
            /\ server_port_' = p
    /\ UNCHANGED <<server_address_, test_duration_>>
    /\ SetterFrame

setTestDuration(d) ==
    /\ IF Started
       THEN /\ last' = Op("setTestDuration", d, 0, TRUE)
            /\ UNCHANGED test_duration_
       ELSE /\ last' = Op("setTestDuration", d, 0, FALSE)
            /\ test_duration_' = d
    /\ UNCHANGED <<server_address_, server_port_>>
    /\ SetterFrame

(***************************************************************************)
(* The specifications.                                                     *)
(***************************************************************************)
Next ==
    \/ Run
    \/ RunReturn
    \/ \E q \in Qids : Response(q)
    \/ MalformedResponse
    \/ \E s \in SlotIds : Timeout(s)
    \/ sessionTimerCallback
    \/ sessionTimerCallbackAgain
    \/ \E a \in DOMAIN Addresses : setServerAddress(a)
    \/ \E p \in Ports : setServerPort(p)
    \/ \E d \in Durations : setTestDuration(d)

Spec == Init /\ [][Next]_vars

\* The event loop delivers the expiry of every timer that is armed.
LiveSpec ==
    /\ Spec
    /\ WF_vars(sessionTimerCallback)
    /\ \A s \in SlotIds : WF_vars(Timeout(s))

(***************************************************************************)
(* The phases of a run.                                                    *)
(***************************************************************************)
RUNNING == Started /\ keep_sending_
DRAINING == Started /\ ~keep_sending_ /\ outstanding_ # << >>
STOPPED == loop = "stopped"

\* The last step was a restartQuery call that matched a slot.
Matched == last.op \in {"response", "timeout"} /\ last.hit # 0

(***************************************************************************)
(* C1.  Window invariant: from the end of the initial dispatch until the   *)
(* session timer fires, the number of slots in the outstanding window      *)
(* equals the configured window size.                                      *)
(***************************************************************************)
C1_WindowFull == RUNNING => Len(outstanding_) = window_

\* A run that has restarted slots on responses and on timeouts, and has
\* just discarded a response that matched none.
C1_Witness ==
    /\ RUNNING
    /\ window_ = MaxWindow
    /\ queries_completed_ > 0
    /\ timeouts > 0
    /\ last.op = "response"
    /\ last.hit = 0

C3_Termination == (loop = "running") ~> (loop # "running")

(***************************************************************************)
(* C4.  Counter consistency: completed-count never exceeds sent-count,     *)
(* whatever responses (duplicates, colliding identifiers) and timeouts     *)
(* are delivered.                                                          *)
(***************************************************************************)
C4_CompletedLeSent == queries_completed_ <= queries_sent_

\* Two slots hold the same identifier, a response has just matched one of
\* them, and every request sent so far but those in flight is completed.
C4_Witness ==
    /\ Len(outstanding_) = 2
    /\ outstanding_[1].qid = outstanding_[2].qid
    /\ last.op = "response"
    /\ last.hit # 0
    /\ queries_completed_ = queries_sent_ - 2

(***************************************************************************)
(* C5.  Sent-count is the number of requests written to the socket: 0      *)
(* before run(), the window size right after the initial dispatch, one     *)
(* more with each send of restartQuery, and unchanged by every other       *)
(* event.                                                                  *)
(***************************************************************************)
C5_SentCount ==
    [][ /\ ~Started => queries_sent_ = 0
        /\ queries_sent_' = Len(sent_log')
        /\ last'.op = "run" => queries_sent_' = window_
        /\ (last'.op \in {"response", "timeout"} /\ keep_sending_
              /\ FindFirst(outstanding_, last'.arg) # 0)
             => (queries_sent_' = queries_sent_ + 1
                  /\ sent_log' = Append(sent_log, qid_))
        /\ (last'.op \in {"response", "timeout"}
              /\ ~(keep_sending_ /\ FindFirst(outstanding_, last'.arg) # 0))
             => queries_sent_' = queries_sent_
        /\ last'.op \notin {"run", "response", "timeout"}
             => queries_sent_' = queries_sent_
      ]_vars

\* Slots were restarted, the session timer fired and a slot was removed.
C5_Witness ==
    /\ queries_sent_ > window_
    /\ session_timer_ = "expired"
    /\ Matched
    /\ Len(outstanding_) < window_

(***************************************************************************)
(* C6.  No send after drain: once sessionTimerCallback has run, sent-count *)
(* and the send counter keep their values, nothing is written to the       *)
(* socket, no slot gets a new identifier, no timer is rearmed and sending  *)
(* is not enabled again.                                                   *)
(***************************************************************************)
C6_NoSendAfterDrain ==
    [][ session_timer_ = "expired" =>
          /\ ~keep_sending_'
          /\ queries_sent_' = queries_sent_
          /\ qid_' = qid_
          /\ sent_log' = sent_log
          /\ \A i \in 1 .. Len(outstanding_') :
                \E j \in 1 .. Len(outstanding_) :
                   /\ outstanding_[j].slot = outstanding_'[i].slot
                   /\ outstanding_[j].qid = outstanding_'[i].qid
                   /\ outstanding_'[i].armed => outstanding_[j].armed
      ]_vars

\* Draining: a response has concluded one slot and another is left.
C6_Witness ==
    /\ session_timer_ = "expired"
    /\ last.op = "response"
    /\ last.hit # 0
    /\ outstanding_ # << >>
    /\ queries_sent_ > window_

(***************************************************************************)
(* C7.  A response whose identifier is the current identifier of no slot   *)
(* in the window (the empty window included) changes nothing: the          *)
(* counters, the window and its order, the identifier and timer of every   *)
(* slot and the phase stay as they are, and the run continues.             *)
(***************************************************************************)
C7_UnmatchedResponse ==
    [][ (/\ last'.op = "response"
         /\ \A i \in 1 .. Len(outstanding_) :
               outstanding_[i].qid # last'.arg)
        => /\ UNCHANGED <<keep_sending_, window_, counters, config,
                          start_time_, end_time_, udp_socket_,
                          session_timer_, outstanding_, loop, stops,
                          sent_log, timeouts>>
           /\ loop' \in {"running", "stopped"}
      ]_vars

\* A response for an identifier that no slot of a full window holds.
C7_Witness ==
    /\ last.op = "response"
    /\ last.hit = 0
    /\ Len(outstanding_) = MaxWindow
    /\ \A i \in 1 .. Len(outstanding_) : outstanding_[i].qid # last.arg
    /\ queries_sent_ > window_

(***************************************************************************)
(* C8.  A datagram too short or unparsable for the extraction of the       *)
(* identifier is dropped by responseCallback: the counters, the window     *)
(* and the phase stay as they are and the run goes on; the failure does    *)
(* not end the run or leave run().                                         *)
(***************************************************************************)
C8_MalformedDropped ==
    [][ last'.op = "malformed" =>
          /\ UNCHANGED <<keep_sending_, counters, outstanding_, stops,
                         sent_log, timeouts>>
          /\ loop' = "running"
      ]_vars

(***************************************************************************)
(* C9.  Configuration is frozen by run(): before it each setter succeeds   *)
(* and the getter returns the new value; once the start time is set each   *)
(* setter fails and leaves the address, the port, the duration and all     *)
(* other state unchanged.                                                  *)
(***************************************************************************)
Setters == {"setServerAddress", "setServerPort", "setTestDuration"}

C9_ConfigFrozen ==
    [][ last'.op \in Setters =>
          IF start_time_ = "set"
          THEN /\ last'.err
               /\ UNCHANGED <<keep_sending_, window_, counters, config,
                              start_time_, end_time_, udp_socket_,
                              session_timer_, outstanding_, loop, stops,
                              sent_log, timeouts>>
          ELSE /\ ~last'.err
               /\ last'.op = "setServerAddress" =>
                     server_address_' = Addresses[last'.arg]
               /\ last'.op = "setServerPort" => server_port_' = last'.arg
               /\ last'.op = "setTestDuration" =>
                     test_duration_' = last'.arg
      ]_vars

\* The address was changed before run(); a change to another address
\* while the run is under way has failed and the address is as it was.
C9_Witness ==
    /\ loop = "running"
    /\ last.op = "setServerAddress"
    /\ last.err
    /\ last.arg = 1
    /\ server_address_ = Addresses[2]

(***************************************************************************)
(* C10.  Normal completion: in a run in which no per-exchange timer ever   *)
(* fires, so that every exchange is concluded by a matching response,      *)
(* sent-count equals completed-count when STOPPED is reached.              *)
(***************************************************************************)
C10_NormalCompletion ==
    (STOPPED /\ timeouts = 0) => queries_sent_ = queries_completed_

\* A run stopped after restarts, all of its exchanges concluded by
\* responses.
C10_Witness ==
    /\ STOPPED
    /\ timeouts = 0
    /\ window_ = MaxWindow
    /\ queries_sent_ > window_

(***************************************************************************)
(* C11.  Identifier uniqueness in flight: while RUNNING, two distinct      *)
(* slots of the window whose identifiers were assigned within the same     *)
(* wrap cycle of the send counter hold different identifiers.              *)
(***************************************************************************)
\* The wrap cycle of qid_ in which the n-th request got its identifier.
Cycle(n) == n \div QidSpace

C11_UniqueInCycle ==
    RUNNING =>
        \A i, j \in 1 .. Len(outstanding_) :
            (i # j /\ Cycle(outstanding_[i].seq) = Cycle(outstanding_[j].seq))
                => outstanding_[i].qid # outstanding_[j].qid

\* Two slots restarted after the send counter has wrapped, both in the
\* second cycle.
C11_Witness ==
    /\ RUNNING
    /\ loop = "running"
    /\ Len(outstanding_) = 2
    /\ Cycle(outstanding_[1].seq) = 1
    /\ Cycle(outstanding_[2].seq) = 1

(***************************************************************************)
(* C12.  Mismatches are recorded: a response whose identifier matches no   *)
(* outstanding slot is discarded and counted in the state of the run, in   *)
(* a count apart from completed-count, so that some member of the engine   *)
(* differs after it.                                                       *)
(***************************************************************************)
\* The data members of DispatcherImpl.
engine == <<keep_sending_, window_, qid_, queries_sent_, queries_completed_,
            server_address_, server_port_, test_duration_, start_time_,
            end_time_, udp_socket_, session_timer_, outstanding_>>

C12_MismatchRecorded ==
    [][ (/\ last'.op = "response"
         /\ \A i \in 1 .. Len(outstanding_) :
               outstanding_[i].qid # last'.arg)
        => /\ engine' # engine
           /\ queries_completed_' = queries_completed_
      ]_vars

(***************************************************************************)
(* C13.  Idempotent session-timer callback: the callback only disables     *)
(* sending and changes no counter, no slot and nothing of the window, and  *)
(* a further call of it leaves the state that the first call left.         *)
(***************************************************************************)
C13_SessionIdempotent ==
    [][ /\ last'.op \in {"session", "session again"} =>
              /\ ~keep_sending_'
              /\ UNCHANGED <<window_, counters, config, start_time_,
                             end_time_, udp_socket_, outstanding_, loop,
                             stops, sent_log, timeouts>>
        /\ last'.op = "session again" =>
              UNCHANGED <<engine, loop, stops, sent_log, timeouts>>
      ]_vars

\* The callback has been called again while a full window drains.
C13_Witness ==
    /\ last.op = "session again"
    /\ ~keep_sending_
    /\ Len(outstanding_) = MaxWindow
    /\ queries_sent_ > window_

(***************************************************************************)
(* C14.  Restarted slot moves to the back: when restartQuery matches a     *)
(* slot while sending is enabled, that slot is the last element of the     *)
(* window afterwards and the other slots keep their relative order.        *)
(***************************************************************************)
\* The slots of a window, in its order.
SlotsOf(w) == [i \in 1 .. Len(w) |-> w[i].slot]

C14_MovedToBack ==
    [][ (/\ last'.op \in {"response", "timeout"}
         /\ last'.hit # 0
         /\ keep_sending_
         /\ loop' = "running")
        => SlotsOf(outstanding_') =
              SubSeq(SlotsOf(outstanding_), 1, last'.hit - 1)
              \o SubSeq(SlotsOf(outstanding_), last'.hit + 1,
                        Len(outstanding_))
              \o << outstanding_[last'.hit].slot >>
      ]_vars

(***************************************************************************)
(* C15.  Identifiers follow send order: the k-th request written to the    *)
(* socket (from 0) carries identifier k modulo the size of the identifier  *)
(* space; the initial requests carry 0 .. N-1 in window order, and each    *)
(* restart hands out the current send counter and then increments it with  *)
(* wrap-around.                                                            *)
(***************************************************************************)
C15_IdsFollowSendOrder ==
    /\ \A n \in 1 .. Len(sent_log) : sent_log[n] = (n - 1) % QidSpace
    /\ qid_ = Len(sent_log) % QidSpace
    /\ \A i \in 1 .. Len(outstanding_) :
          outstanding_[i].seq >= 0 =>
              outstanding_[i].qid = outstanding_[i].seq % QidSpace
    /\ last.op = "run" =>
          \A i \in 1 .. Len(outstanding_) :
              /\ outstanding_[i].slot = i
              /\ outstanding_[i].qid = (i - 1) % QidSpace

\* A restart has handed out an identifier after the counter has wrapped.
C15_Witness ==
    /\ Matched
    /\ keep_sending_
    /\ Len(sent_log) > QidSpace
    /\ sent_log[Len(sent_log)] = (Len(sent_log) - 1) - QidSpace
    /\ \E i \in 1 .. Len(outstanding_) :
          outstanding_[i].seq = Len(sent_log) - 1

(***************************************************************************)
(* C16.  First match wins: when several slots of the window hold the       *)
(* identifier passed to restartQuery, the first of them in window order    *)
(* is the one restarted or removed; every other slot, those with the same  *)
(* identifier included, keeps its identifier, its request, its place in    *)
(* the window and its timer (but for the timer whose expiry made the       *)
(* call, which is spent).                                                  *)
(***************************************************************************)
\* The positions of the window w that hold identifier q.
Holders(w, q) == {i \in 1 .. Len(w) : w[i].qid = q}

\* The least position among a non-empty set of positions.
First(H) == CHOOSE i \in H : \A j \in H : i <= j

C16_FirstMatchWins ==
    [][ (/\ last'.op \in {"response", "timeout"}
         /\ Cardinality(Holders(outstanding_, last'.arg)) >= 2)
        => LET q == last'.arg
               k == First(Holders(outstanding_, q))
               Now(s) == {j \in 1 .. Len(outstanding_') :
                              outstanding_'[j].slot = s}
           IN  /\ \A i \in (1 .. Len(outstanding_)) \ {k} :
                     \E j \in Now(outstanding_[i].slot) :
                        /\ outstanding_'[j].qid = outstanding_[i].qid
                        /\ outstanding_'[j].seq = outstanding_[i].seq
                        /\ \/ outstanding_'[j].armed = outstanding_[i].armed
                           \/ /\ last'.op = "timeout"
                              /\ outstanding_[i].qid = q
                              /\ outstanding_[i].armed
                              /\ ~outstanding_'[j].armed
               /\ IF keep_sending_
                  THEN \E j \in Now(outstanding_[k].slot) :
                          /\ outstanding_'[j].seq = Len(sent_log)
                          /\ outstanding_'[j].qid = qid_
                          /\ outstanding_'[j].armed
                  ELSE Now(outstanding_[k].slot) = {}
      ]_vars

\* Draining, two slots held the identifier of a response: the first was
\* removed and the other is still in the window with that identifier.
C16_Witness ==
    /\ ~keep_sending_
    /\ last.op = "response"
    /\ last.hit = 1
    /\ \E i \in 1 .. Len(outstanding_) :
          /\ outstanding_[i].qid = last.arg
          /\ outstanding_[i].armed

(***************************************************************************)
(* C17.  Completion counting is the same in RUNNING and DRAINING: a        *)
(* restartQuery call that finds a slot adds one to completed-count for a   *)
(* response and nothing for a timeout, in both phases; in RUNNING the      *)
(* slot is restarted, in DRAINING it is removed.  Nothing else changes     *)
(* completed-count, so a run concluded by timeouts alone stops with        *)
(* completed-count 0.                                                      *)
(***************************************************************************)
C17_CompletionCounting ==
    [][ /\ ~Started => queries_completed_ = 0
        /\ (/\ last'.op = "response"
            /\ Holders(outstanding_, last'.arg) # {})
           => queries_completed_' = queries_completed_ + 1
        /\ last'.op = "timeout" => queries_completed_' = queries_completed_
        /\ (/\ last'.op \in {"response", "timeout"}
            /\ Holders(outstanding_, last'.arg) # {})
           => IF keep_sending_
              THEN /\ Len(outstanding_') = Len(outstanding_)
                   /\ queries_sent_' = queries_sent_ + 1
              ELSE /\ Len(outstanding_') = Len(outstanding_) - 1
                   /\ queries_sent_' = queries_sent_
        /\ queries_completed_' # queries_completed_ => last'.op = "response"
        /\ (loop' = "stopped" /\ timeouts' = queries_sent_')
           => queries_completed_' = 0
      ]_vars

\* Draining after responses and timeouts: a response has just removed a
\* slot and was counted.
C17_Witness ==
    /\ ~keep_sending_
    /\ last.op = "response"
    /\ last.hit # 0
    /\ timeouts > 0
    /\ queries_completed_ >= 2

(***************************************************************************)
(* C18.  Response/timeout race: whichever of the response and the timeout  *)
(* of an exchange with identifier X is delivered first concludes it; the   *)
(* other, delivered afterwards, is an unmatched discard that changes no    *)
(* counter, restarts no slot and removes no slot.                          *)
(***************************************************************************)
\* The requests in flight: the positions in sent_log that slots hold.
InFlight(w) == {w[i].seq : i \in 1 .. Len(w)}

\* Identifier q is that of an exchange already concluded: a request with
\* it was written and no slot holds that request any more.
Late(q) ==
    \E n \in 1 .. Len(sent_log) :
        sent_log[n] = q /\ (n - 1) \notin InFlight(outstanding_)

\* The claim as made: a response for a concluded exchange does nothing.
C18_LoserDiscarded ==
    [][ (last'.op = "response" /\ Late(last'.arg))
        => UNCHANGED <<counters, outstanding_>>
      ]_vars

\* As amended: the first event for an identifier that one slot holds
\* concludes that slot's exchange; a response for a concluded exchange is
\* an unmatched discard unless a slot holds the identifier again, and then
\* it concludes the first such slot and is counted.
C18_RaceAmended ==
    [][ /\ (/\ last'.op \in {"response", "timeout"}
            /\ Cardinality(Holders(outstanding_, last'.arg)) = 1)
           => \A i \in Holders(outstanding_, last'.arg) :
                 outstanding_[i].seq \notin InFlight(outstanding_')
        /\ (last'.op = "response" /\ Late(last'.arg))
           => IF Holders(outstanding_, last'.arg) = {}
              THEN UNCHANGED <<counters, outstanding_, loop, stops,
                               sent_log, timeouts>>
              ELSE /\ queries_completed_' = queries_completed_ + 1
                   /\ outstanding_[First(Holders(outstanding_,
                                                 last'.arg))].seq
                         \notin InFlight(outstanding_')
      ]_vars

\* The timeout of an exchange came first and restarted its slot; the
\* response for it has just been discarded.
C18_Witness ==
    /\ loop = "running"
    /\ last.op = "response"
    /\ last.hit = 0
    /\ timeouts > 0
    /\ queries_completed_ = 0
    /\ Late(last.arg)
    /\ Len(outstanding_) = MaxWindow

(***************************************************************************)
(* C19.  Conservation of exchanges: after the initial dispatch sent-count  *)
(* is completed-count plus the number of per-exchange timeouts (each of    *)
(* which matches a slot) plus the number of slots in the window.           *)
(***************************************************************************)
C19_Conservation ==
    /\ Started =>
          queries_sent_ =
              queries_completed_ + timeouts + Len(outstanding_)
    /\ last.op = "timeout" => last.hit # 0

\* A stopped run, some of its requests completed and some timed out.
C19_Witness ==
    /\ STOPPED
    /\ timeouts > 0
    /\ queries_completed_ > 0
    /\ queries_sent_ = queries_completed_ + timeouts

(***************************************************************************)
(* C20.  Timer coverage: whenever control is in the event loop, every      *)
(* slot of the window has its per-exchange timer armed (a firing timer     *)
(* restarts or removes the slot that owns it), so that no slot stays       *)
(* outstanding for ever without a response.                                *)
(***************************************************************************)
C20_TimersArmed ==
    loop = "running" =>
        \A i \in 1 .. Len(outstanding_) : outstanding_[i].armed

=============================================================================
